---- MODULE Spec2Model ----
(***************************************************************************)
(* Model of the MongoDB pod of netpod-jlabath-mongo (src/main.go): the     *)
(* filter-tuple decoder, the conversion to the store's filter, and the     *)
(* three handlers list-collections, find-one and find-many.                *)
(*                                                                         *)
(* Strings are sequences of one-character strings, so that hex decoding    *)
(* and case folding are computed and not assumed.  JSON tokens and Go      *)
(* values are records of one fixed shape each, tagged by the field t.      *)
(***************************************************************************)
EXTENDS Integers, Sequences, FiniteSets, TLC

(***************************************************************************)
(* Bounds of the model.                                                    *)
(***************************************************************************)
\* longest filter array built from the small tuple alphabet
MaxTuples == 2
\* longest sequence of documents a cursor materializes
MaxDocs == 2
\* number of invocations that may be in progress at once (ConcSpec)
NumInvocations == 2

(***************************************************************************)
(* Strings.                                                                *)
(***************************************************************************)
Rep(c, n) == [i \in 1..n |-> c]

Upper == <<"A","B","C","D","E","F","G","H","I","J","K","L","M",
           "N","O","P","Q","R","S","T","U","V","W","X","Y","Z">>

Lower == <<"a","b","c","d","e","f","g","h","i","j","k","l","m",
           "n","o","p","q","r","s","t","u","v","w","x","y","z">>

\* ASCII lower-casing of one character
ToLower(c) ==
    IF \E i \in 1..26 : Upper[i] = c
    THEN Lower[CHOOSE i \in 1..26 : Upper[i] = c]
    ELSE c

\* encoding/json matches object keys to struct fields ignoring case
EqualFold(s, t) ==
    /\ Len(s) = Len(t)
    /\ \A i \in 1..Len(s) : ToLower(s[i]) = ToLower(t[i])

Digits == <<"0","1","2","3","4","5","6","7","8","9">>

\* value of one hexadecimal digit, -1 when c is not one
HexVal(c) ==
    IF \E i \in 1..10 : Digits[i] = c
    THEN (CHOOSE i \in 1..10 : Digits[i] = c) - 1
    ELSE IF \E i \in 1..6 : Lower[i] = ToLower(c)
         THEN 9 + (CHOOSE i \in 1..6 : Lower[i] = ToLower(c))
         ELSE -1

\* length of the hex form of an ObjectID (12 bytes)
ObjectIDHexLen == 24

NilObjectID == Rep(0, 12)

\* primitive.ObjectIDFromHex: 24 hex digits give the 12 bytes, else an error
ObjectIDFromHex(s) ==
    IF Len(s) # ObjectIDHexLen
    THEN [err |-> TRUE, oid |-> NilObjectID]
    ELSE IF \E i \in 1..Len(s) : HexVal(s[i]) < 0
         THEN [err |-> TRUE, oid |-> NilObjectID]
         ELSE [err |-> FALSE,
               oid |-> [i \in 1..12 |-> 16 * HexVal(s[2*i - 1]) + HexVal(s[2*i])]]

(***************************************************************************)
(* JSON tokens (json.RawMessage).  Numbers are in tenths: n = 25 is 2.5.   *)
(* Object members keep their order and may repeat a key.                   *)
(***************************************************************************)
JNull    == [t |-> "null", b |-> FALSE, n |-> 0, s |-> <<>>, a |-> <<>>, o |-> <<>>]
JBool(x) == [t |-> "bool", b |-> x, n |-> 0, s |-> <<>>, a |-> <<>>, o |-> <<>>]
JNum(x)  == [t |-> "num", b |-> FALSE, n |-> x, s |-> <<>>, a |-> <<>>, o |-> <<>>]
JStr(x)  == [t |-> "str", b |-> FALSE, n |-> 0, s |-> x, a |-> <<>>, o |-> <<>>]
JArr(x)  == [t |-> "arr", b |-> FALSE, n |-> 0, s |-> <<>>, a |-> x, o |-> <<>>]
JObj(x)  == [t |-> "obj", b |-> FALSE, n |-> 0, s |-> <<>>, a |-> <<>>, o |-> x]
Member(k, v) == [k |-> k, v |-> v]

(***************************************************************************)
(* Go values held in an interface{}: the generic decoding of a token, or   *)
(* a primitive.ObjectID.                                                   *)
(***************************************************************************)
GoNil       == [t |-> "nil", b |-> FALSE, n |-> 0, s |-> <<>>, a |-> <<>>, m |-> <<>>, oid |-> <<>>]
GoBool(x)   == [t |-> "bool", b |-> x, n |-> 0, s |-> <<>>, a |-> <<>>, m |-> <<>>, oid |-> <<>>]
GoFloat(x)  == [t |-> "float64", b |-> FALSE, n |-> x, s |-> <<>>, a |-> <<>>, m |-> <<>>, oid |-> <<>>]
GoInt64(x)  == [t |-> "int64", b |-> FALSE, n |-> x, s |-> <<>>, a |-> <<>>, m |-> <<>>, oid |-> <<>>]
GoString(x) == [t |-> "string", b |-> FALSE, n |-> 0, s |-> x, a |-> <<>>, m |-> <<>>, oid |-> <<>>]
GoSlice(x)  == [t |-> "slice", b |-> FALSE, n |-> 0, s |-> <<>>, a |-> x, m |-> <<>>, oid |-> <<>>]
GoMap(x)    == [t |-> "map", b |-> FALSE, n |-> 0, s |-> <<>>, a |-> <<>>, m |-> x, oid |-> <<>>]
GoObjectID(x) == [t |-> "ObjectID", b |-> FALSE, n |-> 0, s |-> <<>>, a |-> <<>>, m |-> <<>>, oid |-> x]

\* the members of o as a Go map: a repeated key keeps its last value
RECURSIVE MapOf(_, _)
MapOf(o, f) ==
    IF o = <<>> THEN f
    ELSE MapOf(Tail(o),
               [k \in DOMAIN f \cup {Head(o).k} |->
                   IF k = Head(o).k THEN Head(o).v ELSE f[k]])

\* json.Unmarshal(tok, &val) with val interface{}
RECURSIVE UnmarshalAny(_)
UnmarshalAny(tok) ==
    CASE tok.t = "null" -> GoNil
      [] tok.t = "bool" -> GoBool(tok.b)
      [] tok.t = "num"  -> GoFloat(tok.n)
      [] tok.t = "str"  -> GoString(tok.s)
      [] tok.t = "arr"  -> GoSlice([i \in 1..Len(tok.a) |-> UnmarshalAny(tok.a[i])])
      [] tok.t = "obj"  ->
            GoMap(MapOf([i \in 1..Len(tok.o) |->
                            Member(tok.o[i].k, UnmarshalAny(tok.o[i].v))], <<>>))

(***************************************************************************)
(* filterTuple.UnmarshalJSON and its helpers.                              *)
(***************************************************************************)
\* the one field of the helper struct HexObjID
ObjectIdField == <<"O","b","j","e","c","t","I","d">>

\* the object members decoded into a HexObjID: a key matching the field
\* sets it from a string, leaves it alone on null and records a type error
\* on anything else; every other key is skipped
RECURSIVE HexObjIDFields(_, _)
HexObjIDFields(o, acc) ==
    IF o = <<>> THEN acc
    ELSE LET m == Head(o) IN
         HexObjIDFields(Tail(o),
            IF ~EqualFold(m.k, ObjectIdField) THEN acc
            ELSE IF m.v.t = "str" THEN [acc EXCEPT !.ObjectId = m.v.s]
            ELSE IF m.v.t = "null" THEN acc
            ELSE [acc EXCEPT !.err = TRUE])

\* json.Unmarshal(tok, &objId) with objId HexObjID
UnmarshalHexObjID(tok) ==
    CASE tok.t = "obj"  -> HexObjIDFields(tok.o, [err |-> FALSE, ObjectId |-> <<>>])
      [] tok.t = "null" -> [err |-> FALSE, ObjectId |-> <<>>]
      [] OTHER          -> [err |-> TRUE, ObjectId |-> <<>>]

\* json.Unmarshal(data, &slice) with slice []json.RawMessage
UnmarshalRawSlice(data) ==
    CASE data.t = "arr"  -> [err |-> FALSE, slice |-> data.a]
      [] data.t = "null" -> [err |-> FALSE, slice |-> <<>>]
      [] OTHER           -> [err |-> TRUE, slice |-> <<>>]

\* json.Unmarshal(tok, &str) with str string holding cur: null leaves it alone
UnmarshalString(tok, cur) ==
    CASE tok.t = "str"  -> [err |-> FALSE, str |-> tok.s]
      [] tok.t = "null" -> [err |-> FALSE, str |-> cur]
      [] OTHER          -> [err |-> TRUE, str |-> cur]

\* the value of a tuple: the ObjectID when the token decodes as a HexObjID
\* holding valid hex, else the generic decoding
TupleValue(tok) ==
    LET objId == UnmarshalHexObjID(tok)
        oid   == ObjectIDFromHex(objId.ObjectId)
    IN  IF ~objId.err /\ ~oid.err
        THEN GoObjectID(oid.oid)
        ELSE UnmarshalAny(tok)

ZeroTuple == [Key |-> <<>>, Value |-> GoNil]

\* filterTuple.UnmarshalJSON(data)
UnmarshalJSON(data) ==
    LET raw == UnmarshalRawSlice(data) IN
    IF raw.err THEN [err |-> TRUE, tuple |-> ZeroTuple]
    ELSE IF Len(raw.slice) # 2 THEN [err |-> TRUE, tuple |-> ZeroTuple]
    ELSE LET key == UnmarshalString(raw.slice[1], <<>>) IN
         IF key.err THEN [err |-> TRUE, tuple |-> ZeroTuple]
         ELSE [err |-> FALSE,
               tuple |-> [Key |-> key.str, Value |-> TupleValue(raw.slice[2])]]

\* json.Unmarshal(tok, &filters) with filters filterSlice
UnmarshalFilterSlice(tok) ==
    CASE tok.t = "arr" ->
            IF \E i \in 1..Len(tok.a) : UnmarshalJSON(tok.a[i]).err
            THEN [err |-> TRUE, filters |-> <<>>]
            ELSE [err |-> FALSE,
                  filters |-> [i \in 1..Len(tok.a) |-> UnmarshalJSON(tok.a[i]).tuple]]
      [] tok.t = "null" -> [err |-> FALSE, filters |-> <<>>]
      [] OTHER          -> [err |-> TRUE, filters |-> <<>>]

\* json.Unmarshal(tok, &userOptions) with userOptions map[string]interface{}
\* holding cur: an object is decoded into the map that is there (a nil map
\* is made first), null makes the map nil
UnmarshalOptions(tok, cur) ==
    CASE tok.t = "obj"  ->
            LET new == UnmarshalAny(tok).m IN
            [err |-> FALSE,
             m |-> [k \in DOMAIN cur \cup DOMAIN new |->
                       IF k \in DOMAIN new THEN new[k] ELSE cur[k]]]
      [] tok.t = "null" -> [err |-> FALSE, m |-> <<>>]
      [] OTHER          -> [err |-> TRUE, m |-> cur]

\* ToBSOND filling the filter from its end
ToBSOND_Reversed(r) == [i \in 1..Len(r) |-> r[Len(r) + 1 - i]]

\* filterSlice.ToBSOND: element i of the filter is tuple i
ToBSOND(r) == [i \in 1..Len(r) |-> r[i]]

(***************************************************************************)
(* Errors, results, query options.                                         *)
(***************************************************************************)
\* an error value: the cause, and the prefix a handler wrapped it with
\* (fmt.Errorf("... : %w", err)); wrap = "" is the bare cause
Error(wrap, cause) == [wrap |-> wrap, cause |-> cause]
NoError == Error("", "nil")

\* a json.RawMessage result: nil, or the encoding of vals
NilResult == [nil |-> TRUE, vals |-> <<>>]
Result(vals) == [nil |-> FALSE, vals |-> vals]

\* json.Marshal of a sequence of documents or names: a value that has no
\* JSON form (enc = FALSE) gives (nil, err)
Marshal(vals) ==
    IF \E i \in 1..Len(vals) : ~vals[i].enc
    THEN [result |-> NilResult, err |-> Error("", "Marshal")]
    ELSE [result |-> Result(vals), err |-> NoError]

sProjection   == <<"p","r","o","j","e","c","t","i","o","n">>
sSort         == <<"s","o","r","t">>
sAllowDiskUse == <<"a","l","l","o","w","-","d","i","s","k","-","u","s","e">>
sLimit        == <<"l","i","m","i","t">>

Unset == [set |-> FALSE, val |-> GoNil]
Set(v) == [set |-> TRUE, val |-> v]

\* options.FindOne() and options.Find(): nothing set
NoOptions == [Projection |-> Unset, Sort |-> Unset,
              AllowDiskUse |-> Unset, Limit |-> Unset]

\* int64(r) for a float64 r (in tenths): truncation toward zero
Int64Of(r) == IF r >= 0 THEN r \div 10 ELSE -((-r) \div 10)

\* find-one looking up sort as well
FindOneOptions_WithSort(userOptions) ==
    [NoOptions EXCEPT
        !.Projection = IF sProjection \in DOMAIN userOptions
                       THEN Set(userOptions[sProjection]) ELSE Unset,
        !.Sort = IF sSort \in DOMAIN userOptions
                 THEN Set(userOptions[sSort]) ELSE Unset]

\* find-one: only projection is looked up
FindOneOptions(userOptions) ==
    [NoOptions EXCEPT
        !.Projection = IF sProjection \in DOMAIN userOptions
                       THEN Set(userOptions[sProjection]) ELSE Unset]

\* find-many setting the limit from an unchecked type assertion: a limit
\* that is no float64 sets the limit 0
FindOptions_UncheckedLimit(userOptions) ==
    LET has(k) == k \in DOMAIN userOptions
        okDisk == has(sAllowDiskUse) /\ userOptions[sAllowDiskUse].t = "bool"
        okLimit == has(sLimit) /\ userOptions[sLimit].t = "float64"
    IN  [opts |->
            [Projection |-> IF has(sProjection)
                            THEN Set(userOptions[sProjection]) ELSE Unset,
             Sort |-> IF has(sSort) THEN Set(userOptions[sSort]) ELSE Unset,
             AllowDiskUse |-> IF okDisk
                              THEN Set(GoBool(userOptions[sAllowDiskUse].b))
                              ELSE Unset,
             Limit |-> IF okLimit
                       THEN Set(GoInt64(Int64Of(userOptions[sLimit].n)))
                       ELSE IF has(sLimit) THEN Set(GoInt64(0)) ELSE Unset],
         logged |->
            (IF has(sAllowDiskUse) /\ ~okDisk THEN <<sAllowDiskUse>> ELSE <<>>)]

\* find-many: projection and sort are handed over as they are, allow-disk-use
\* must be a bool and limit a float64, else the key is logged and skipped
FindOptions(userOptions) ==
    LET has(k) == k \in DOMAIN userOptions
        okDisk == has(sAllowDiskUse) /\ userOptions[sAllowDiskUse].t = "bool"
        okLimit == has(sLimit) /\ userOptions[sLimit].t = "float64"
    IN  [opts |->
            [Projection |-> IF has(sProjection)
                            THEN Set(userOptions[sProjection]) ELSE Unset,
             Sort |-> IF has(sSort) THEN Set(userOptions[sSort]) ELSE Unset,
             AllowDiskUse |-> IF okDisk
                              THEN Set(GoBool(userOptions[sAllowDiskUse].b))
                              ELSE Unset,
             Limit |-> IF okLimit
                       THEN Set(GoInt64(Int64Of(userOptions[sLimit].n)))
                       ELSE Unset],
         logged |->
            (IF has(sAllowDiskUse) /\ ~okDisk THEN <<sAllowDiskUse>> ELSE <<>>)
            \o (IF has(sLimit) /\ ~okLimit THEN <<sLimit>> ELSE <<>>)]

(***************************************************************************)
(* Argument decoding.                                                      *)
(***************************************************************************)
\* the frame of a handler before it has run
FreshFrame ==
    [dbname |-> <<>>, collectionName |-> <<>>, filters |-> <<>>,
     userOptions |-> <<>>]

\* the handler's variables declared outside the handler: they keep what the
\* previous run left in them
ZeroLocals_Stale(prev) == prev

\* the variables a find handler declares, at their zero values; prev is
\* what the handler's previous run left in them
ZeroLocals(prev) ==
    [dbname |-> <<>>, collectionName |-> <<>>, filters |-> <<>>,
     userOptions |-> <<>>]

\* the find handlers never handing over the options target
FindTargets_Always3(args) == <<"dbname", "collectionName", "filters">>

\* the targets handed to pod.DecodeArgs by find-one and find-many
FindTargets(args) ==
    IF Len(args) = 4
    THEN <<"dbname", "collectionName", "filters", "userOptions">>
    ELSE <<"dbname", "collectionName", "filters">>

\* the targets handed to pod.DecodeArgs by list-collections
ListTargets == <<"dbname">>

\* argument i decoded into the target of that position
RECURSIVE DecodeEach(_, _, _, _)
DecodeEach(args, targets, i, l) ==
    IF i > Len(targets) THEN [err |-> NoError, locals |-> l]
    ELSE LET name == targets[i] IN
         CASE name \in {"dbname", "collectionName"} ->
                LET u == UnmarshalString(args[i], l[name]) IN
                IF u.err THEN [err |-> Error("", "Decode"), locals |-> l]
                ELSE DecodeEach(args, targets, i + 1, [l EXCEPT ![name] = u.str])
           [] name = "filters" ->
                LET u == UnmarshalFilterSlice(args[i]) IN
                IF u.err THEN [err |-> Error("", "Decode"), locals |-> l]
                ELSE DecodeEach(args, targets, i + 1, [l EXCEPT !.filters = u.filters])
           [] name = "userOptions" ->
                LET u == UnmarshalOptions(args[i], l.userOptions) IN
                IF u.err THEN [err |-> Error("", "Decode"), locals |-> l]
                ELSE DecodeEach(args, targets, i + 1, [l EXCEPT !.userOptions = u.m])

\* pod.DecodeArgs(args, targets...): as many arguments as targets, each
\* decoded into its target
DecodeArgs(args, targets, l) ==
    IF Len(args) # Len(targets)
    THEN [err |-> Error("", "ArgumentCount"), locals |-> l]
    ELSE DecodeEach(args, targets, 1, l)

(***************************************************************************)
(* The store driver as the handlers see it.                                *)
(***************************************************************************)
\* a store call made by a handler
StoreCall(fn, name, filter, opts) ==
    [fn |-> fn, name |-> name, filter |-> filter, opts |-> opts]

\* what a store call came back with: the driver's error (cause = "nil" for
\* none) and the documents or names it produced
Answer(cause, docs) == [cause |-> cause, docs |-> docs]
NoAnswer == Answer("none", <<>>)

\* a result document or a collection name; enc = FALSE marks a document
\* holding a value json.Marshal rejects
Doc(id, enc) == [kind |-> "doc", id |-> id, enc |-> enc]
Name(id) == [kind |-> "name", id |-> id, enc |-> TRUE]

\* a store call whose context is canceled while it is in flight comes back
\* with the context's error, and only then
Honors(ans, c) == (ans.cause = "Canceled") <=> (c = "canceled")

\* SingleResult.Decode(&result): the driver's error, ErrNoDocuments when
\* nothing matched, else the first matching document
Decode(ans) ==
    IF ans.cause # "nil" THEN Answer(ans.cause, <<>>)
    ELSE IF ans.docs = <<>> THEN Answer("NoDocuments", <<>>)
    ELSE Answer("nil", <<Head(ans.docs)>>)

(***************************************************************************)
(* What the handlers return.                                               *)
(***************************************************************************)
\* list-collections after ListCollectionNames
ListCollectionsResult(ans) ==
    IF ans.cause # "nil"
    THEN [result |-> NilResult,
          err |-> Error("trouble when ListCollectionNames", ans.cause)]
    ELSE Marshal(ans.docs)

\* find-one wrapping every error, the not-found one too
FindOneResult_WrapAll(ans) ==
    LET d == Decode(ans) IN
    IF d.cause # "nil"
    THEN [result |-> NilResult, err |-> Error("findOne failed with", d.cause)]
    ELSE Marshal(d.docs)

\* find-one after FindOne(...).Decode(&result)
FindOneResult(ans) ==
    LET d == Decode(ans) IN
    IF d.cause # "nil"
    THEN IF d.cause = "NoDocuments"
         THEN [result |-> NilResult, err |-> Error("", d.cause)]
         ELSE [result |-> NilResult, err |-> Error("findOne failed with", d.cause)]
    ELSE Marshal(d.docs)

\* find-many reporting a failed Find without its cause
FindError_Opaque(ans) ==
    [result |-> NilResult, err |-> Error("findMany failed", "opaque")]

\* find-many when Find failed
FindError(ans) ==
    [result |-> NilResult, err |-> Error("findMany failed with", ans.cause)]

\* find-many ignoring the error of cursor.All
FindManyResult_Swallow(ans) == Marshal(ans.docs)

\* find-many after cursor.All(ctx, &results)
FindManyResult(ans) ==
    IF ans.cause # "nil"
    THEN [result |-> NilResult,
          err |-> Error("findMany cursor failed with", ans.cause)]
    ELSE Marshal(ans.docs)

(***************************************************************************)
(* State.  Every variable but client is indexed by the invocation slot.    *)
(***************************************************************************)
VARIABLES
    client,     \* the shared mongo.Client
    pc,         \* where the handler of the slot is
    op,         \* the operation invoked
    args,       \* its positional arguments
    ctx,        \* its context: "live" or "canceled"
    locals,     \* the handler's local variables
    calls,      \* the store calls it has made, in order
    logged,     \* the option keys it has logged as unexpected
    answer,     \* what its last store call came back with
    ret         \* what it returned: (result, err)

vars == <<client, pc, op, args, ctx, locals, calls, logged, answer, ret>>

Invocations == 1..NumInvocations

InFlight == {"ListCollectionNames", "FindOne", "Find", "All"}

NoReturn == [result |-> NilResult, err |-> NoError]

Init ==
    /\ client = "connected"
    /\ pc = [i \in Invocations |-> "idle"]
    /\ op = [i \in Invocations |-> "none"]
    /\ args = [i \in Invocations |-> <<>>]
    /\ ctx = [i \in Invocations |-> "live"]
    /\ locals = [i \in Invocations |-> FreshFrame]
    /\ calls = [i \in Invocations |-> <<>>]
    /\ logged = [i \in Invocations |-> <<>>]
    /\ answer = [i \in Invocations |-> NoAnswer]
    /\ ret = [i \in Invocations |-> NoReturn]

\* a handler is entered with arguments a on a fresh context
Enter(i, name, a) ==
    /\ pc[i] = "idle"
    /\ op' = [op EXCEPT ![i] = name]
    /\ args' = [args EXCEPT ![i] = a]
    /\ ctx' = [ctx EXCEPT ![i] = "live"]
    /\ answer' = [answer EXCEPT ![i] = NoAnswer]
    /\ UNCHANGED client

\* the handler returns r
Return(i, r) ==
    /\ pc' = [pc EXCEPT ![i] = "returned"]
    /\ ret' = [ret EXCEPT ![i] = r]

\* the handler blocks in the store call fn
Block(i, fn) ==
    /\ pc' = [pc EXCEPT ![i] = fn]
    /\ ret' = [ret EXCEPT ![i] = NoReturn]

\* list-collections up to its store call
ListCollectionsCall(i, a) ==
    /\ Enter(i, "list-collections", a)
    /\ LET d == DecodeArgs(a, ListTargets, ZeroLocals(locals[i])) IN
       /\ locals' = [locals EXCEPT ![i] = d.locals]
       /\ logged' = [logged EXCEPT ![i] = <<>>]
       /\ IF d.err # NoError
          THEN /\ calls' = [calls EXCEPT ![i] = <<>>]
               /\ Return(i, [result |-> NilResult, err |-> d.err])
          ELSE /\ calls' = [calls EXCEPT ![i] =
                    <<StoreCall("Database", d.locals.dbname, <<>>, NoOptions),
                      StoreCall("ListCollectionNames", <<>>, <<>>, NoOptions)>>]
               /\ Block(i, "ListCollectionNames")

\* find-one up to its store call
FindOneCall(i, a) ==
    /\ Enter(i, "find-one", a)
    /\ LET d == DecodeArgs(a, FindTargets(a), ZeroLocals(locals[i])) IN
       /\ locals' = [locals EXCEPT ![i] = d.locals]
       /\ logged' = [logged EXCEPT ![i] = <<>>]
       /\ IF d.err # NoError
          THEN /\ calls' = [calls EXCEPT ![i] = <<>>]
               /\ Return(i, [result |-> NilResult, err |-> d.err])
          ELSE /\ calls' = [calls EXCEPT ![i] =
                    <<StoreCall("Database", d.locals.dbname, <<>>, NoOptions),
                      StoreCall("Collection", d.locals.collectionName, <<>>, NoOptions),
                      StoreCall("FindOne", <<>>, ToBSOND(d.locals.filters),
                                FindOneOptions(d.locals.userOptions))>>]
               /\ Block(i, "FindOne")

\* find-many up to its first store call
FindManyCall(i, a) ==
    /\ Enter(i, "find-many", a)
    /\ LET d == DecodeArgs(a, FindTargets(a), ZeroLocals(locals[i])) IN
       /\ locals' = [locals EXCEPT ![i] = d.locals]
       /\ IF d.err # NoError
          THEN /\ calls' = [calls EXCEPT ![i] = <<>>]
               /\ logged' = [logged EXCEPT ![i] = <<>>]
               /\ Return(i, [result |-> NilResult, err |-> d.err])
          ELSE LET o == FindOptions(d.locals.userOptions) IN
               /\ calls' = [calls EXCEPT ![i] =
                    <<StoreCall("Database", d.locals.dbname, <<>>, NoOptions),
                      StoreCall("Collection", d.locals.collectionName, <<>>, NoOptions),
                      StoreCall("Find", <<>>, ToBSOND(d.locals.filters), o.opts)>>]
               /\ logged' = [logged EXCEPT ![i] = o.logged]
               /\ Block(i, "Find")

\* ListCollectionNames comes back and list-collections returns
ListCollectionsReturn(i, ans) ==
    /\ pc[i] = "ListCollectionNames"
    /\ Honors(ans, ctx[i])
    /\ answer' = [answer EXCEPT ![i] = ans]
    /\ Return(i, ListCollectionsResult(ans))
    /\ UNCHANGED <<client, op, args, ctx, locals, calls, logged>>

\* FindOne(...).Decode comes back and find-one returns
FindOneReturn(i, ans) ==
    /\ pc[i] = "FindOne"
    /\ Honors(ans, ctx[i])
    /\ Len(ans.docs) <= 1
    /\ answer' = [answer EXCEPT ![i] = ans]
    /\ Return(i, FindOneResult(ans))
    /\ UNCHANGED <<client, op, args, ctx, locals, calls, logged>>

\* Find comes back: with an error find-many returns, with a cursor it goes
\* on to cursor.All
FindReturn(i, ans) ==
    /\ pc[i] = "Find"
    /\ Honors(ans, ctx[i])
    /\ ans.docs = <<>>
    /\ answer' = [answer EXCEPT ![i] = ans]
    /\ IF ans.cause # "nil"
       THEN /\ Return(i, FindError(ans))
            /\ UNCHANGED calls
       ELSE /\ Block(i, "All")
            /\ calls' = [calls EXCEPT ![i] =
                    Append(@, StoreCall("All", <<>>, <<>>, NoOptions))]
    /\ UNCHANGED <<client, op, args, ctx, locals, logged>>

\* cursor.All comes back and find-many returns
AllReturn(i, ans) ==
    /\ pc[i] = "All"
    /\ Honors(ans, ctx[i])
    /\ answer' = [answer EXCEPT ![i] = ans]
    /\ Return(i, FindManyResult(ans))
    /\ UNCHANGED <<client, op, args, ctx, locals, calls, logged>>

\* the transport cancels the context of an invocation blocked in the store
Cancel(i) ==
    /\ pc[i] \in InFlight
    /\ ctx[i] = "live"
    /\ ctx' = [ctx EXCEPT ![i] = "canceled"]
    /\ UNCHANGED <<client, pc, op, args, locals, calls, logged, answer, ret>>

\* the transport has relayed what the handler returned: the invocation is
\* over and its slot is free; what its frame held is garbage from here on
Done(i) ==
    /\ pc[i] = "returned"
    /\ pc' = [pc EXCEPT ![i] = "idle"]
    /\ op' = [op EXCEPT ![i] = "none"]
    /\ args' = [args EXCEPT ![i] = <<>>]
    /\ ctx' = [ctx EXCEPT ![i] = "live"]
    /\ calls' = [calls EXCEPT ![i] = <<>>]
    /\ logged' = [logged EXCEPT ![i] = <<>>]
    /\ answer' = [answer EXCEPT ![i] = NoAnswer]
    /\ ret' = [ret EXCEPT ![i] = NoReturn]
    /\ UNCHANGED <<client, locals>>

(***************************************************************************)
(* Inputs.                                                                 *)
(***************************************************************************)
SeqsUpTo(S, n) == UNION {[1..k -> S] : k \in 0..n}

sA == <<"a">>
sB == <<"b">>
sX == <<"x">>
sFive == <<"f","i","v","e">>
sObjectIdLower == <<"o","b","j","e","c","t","i","d">>

GoodHex  == Rep("0", 22) \o <<"1","f">>
UpperHex == Rep("A", 24)
BadHex   == Rep("0", 23) \o <<"g">>
ShortHex == Rep("0", 4)
LongHex  == Rep("0", 26)

Wrapper(v) == JObj(<<Member(ObjectIdField, v)>>)

\* the values a filter tuple is tried on
ValueTokens ==
    { JNull, JNum(10), JBool(TRUE), JStr(sX), JStr(GoodHex), JArr(<<JNum(10)>>),
      JObj(<<>>),
      Wrapper(JStr(GoodHex)), Wrapper(JStr(UpperHex)), Wrapper(JStr(BadHex)),
      Wrapper(JStr(ShortHex)), Wrapper(JStr(LongHex)), Wrapper(JNum(10)),
      Wrapper(JNull),
      JObj(<<Member(sObjectIdLower, JStr(GoodHex))>>),
      JObj(<<Member(sX, JStr(GoodHex))>>),
      JObj(<<Member(ObjectIdField, JStr(GoodHex)), Member(sX, JNum(10))>>),
      JObj(<<Member(ObjectIdField, JStr(BadHex)), Member(sX, JNum(10))>>),
      JObj(<<Member(ObjectIdField, JStr(GoodHex)), Member(ObjectIdField, JStr(BadHex))>>) }

\* the keys a filter tuple is tried on
KeyTokens == { JStr(sA), JStr(sB), JStr(<<>>), JNull, JNum(10), JBool(TRUE), JObj(<<>>) }

\* single tuples, well formed or not
TupleTokens ==
    { JArr(<<k, v>>) : k \in KeyTokens, v \in ValueTokens }
    \cup { JArr(<<>>), JArr(<<JStr(sA)>>), JArr(<<JStr(sA), JNum(10), JNum(10)>>),
           JNull, JObj(<<>>), JStr(sA), JNum(10) }

\* the tuples longer filters are built from
SmallTuples ==
    { JArr(<<JStr(sA), JNum(10)>>), JArr(<<JStr(sB), JStr(sX)>>),
      JArr(<<JStr(sA), Wrapper(JStr(GoodHex))>>), JArr(<<JStr(sA)>>) }

FilterTokens ==
    { JArr(<<tp>>) : tp \in TupleTokens }
    \cup { JArr(ts) : ts \in SeqsUpTo(SmallTuples, MaxTuples) }
    \cup { JNull, JObj(<<>>) }

\* options bags: each key absent, well shaped or badly shaped
Choices(k, vs) == {<<>>} \cup { <<Member(k, v)>> : v \in vs }

BagTokens ==
    { JObj(p \o s \o d \o l \o u) :
        p \in Choices(sProjection, {JObj(<<Member(sA, JNum(10))>>), JStr(sX)}),
        s \in Choices(sSort, {JObj(<<Member(sB, JNum(-10))>>), JNum(10)}),
        d \in Choices(sAllowDiskUse, {JBool(TRUE), JNum(10)}),
        l \in Choices(sLimit, {JNum(25), JStr(sFive)}),
        u \in Choices(sX, {JNum(10)}) }
    \cup { JNull, JStr(sX) }

DbToken == JStr(<<"d","b">>)
CollToken == JStr(<<"c">>)
OneFilter == JArr(<<JArr(<<JStr(sA), JNum(10)>>)>>)

\* the argument vectors handlers are invoked with
ArgVectors ==
    { <<DbToken, CollToken, f>> : f \in FilterTokens }
    \cup { <<DbToken, CollToken, OneFilter, b>> : b \in BagTokens }
    \cup { <<>>, <<DbToken>>, <<JNull>>, <<JNum(10)>>, <<DbToken, CollToken>>,
           <<DbToken, JNum(10), OneFilter>>,
           <<DbToken, CollToken, OneFilter, JObj(<<>>), JNull>> }

Docs == { Doc(1, TRUE), Doc(2, FALSE) }
Names == { Name(1), Name(2) }

Failures == { Answer("Driver", <<>>), Answer("Canceled", <<>>) }
DocAnswers == { Answer("nil", ds) : ds \in SeqsUpTo(Docs, MaxDocs) } \cup Failures
NameAnswers == { Answer("nil", ns) : ns \in SeqsUpTo(Names, MaxDocs) } \cup Failures
CursorAnswers == { Answer("nil", <<>>) } \cup Failures

(***************************************************************************)
(* Spec: invocations one after another, on the full set of inputs.         *)
(***************************************************************************)
Next ==
    \/ \E a \in ArgVectors : ListCollectionsCall(1, a)
    \/ \E a \in ArgVectors : FindOneCall(1, a)
    \/ \E a \in ArgVectors : FindManyCall(1, a)
    \/ \E ans \in NameAnswers : ListCollectionsReturn(1, ans)
    \/ \E ans \in DocAnswers : FindOneReturn(1, ans)
    \/ \E ans \in CursorAnswers : FindReturn(1, ans)
    \/ \E ans \in DocAnswers : AllReturn(1, ans)
    \/ Cancel(1)
    \/ Done(1)

Spec == Init /\ [][Next]_vars

\* a store call that is in flight comes back
StoreReturns ==
    \/ \E ans \in NameAnswers : ListCollectionsReturn(1, ans)
    \/ \E ans \in DocAnswers : FindOneReturn(1, ans)
    \/ \E ans \in CursorAnswers : FindReturn(1, ans)
    \/ \E ans \in DocAnswers : AllReturn(1, ans)

LiveSpec == Spec /\ WF_vars(StoreReturns)

(***************************************************************************)
(* ConcSpec: invocations interleaved, on a small set of inputs.            *)
(***************************************************************************)
ConcArgs ==
    { <<DbToken>>, <<DbToken, CollToken>>,
      <<DbToken, CollToken, OneFilter>>,
      <<DbToken, CollToken, JArr(<<>>),
        JObj(<<Member(sProjection, JObj(<<>>)), Member(sLimit, JNum(25))>>)>> }

ConcDocAnswers == { Answer("nil", <<>>), Answer("nil", <<Doc(1, TRUE)>>) } \cup Failures
ConcNameAnswers == { Answer("nil", <<Name(1)>>) } \cup Failures

ConcNext ==
    \E i \in Invocations :
        \/ \E a \in ConcArgs : ListCollectionsCall(i, a)
        \/ \E a \in ConcArgs : FindOneCall(i, a)
        \/ \E a \in ConcArgs : FindManyCall(i, a)
        \/ \E ans \in ConcNameAnswers : ListCollectionsReturn(i, ans)
        \/ \E ans \in ConcDocAnswers : FindOneReturn(i, ans)
        \/ \E ans \in CursorAnswers : FindReturn(i, ans)
        \/ \E ans \in ConcDocAnswers : AllReturn(i, ans)
        \/ Cancel(i)
        \/ Done(i)

ConcSpec == Init /\ [][ConcNext]_vars

(***************************************************************************)
(* Properties.                                                             *)
(***************************************************************************)
IsFind(i) == op[i] \in {"find-one", "find-many"}

\* the query call of a find handler is the third store call it makes
Query(i) == calls[i][3]

\* the options bag of an invocation as its JSON says, read on its own
OwnBag(i) ==
    IF Len(args[i]) = 4 /\ args[i][4].t = "obj" THEN UnmarshalAny(args[i][4]).m
    ELSE <<>>

Restrict(m, K) == [k \in DOMAIN m \cap K |-> m[k]]

\* the kind of failure a caller is handed: a wrapped cause is a store
\* error, a bare cause is told by what it is
Kind(e) ==
    CASE e = NoError -> "none"
      [] e.wrap # "" -> "StoreError"
      [] e.cause = "NoDocuments" -> "NotFound"
      [] e.cause = "ArgumentCount" -> "ArgumentError"
      [] e.cause = "Decode" -> "DecodeError"
      [] e.cause = "Canceled" -> "Canceled"
      [] OTHER -> "EncodeError"

\* C1: when the store matches no document, find-one fails with the bare
\* not-found error, which no other store failure produces (those come back
\* wrapped around their cause), and find-many succeeds with the empty
\* sequence
C1_NotFoundAsymmetry ==
    \A i \in Invocations :
        (pc[i] = "returned" /\ calls[i] # <<>>) =>
            /\ (op[i] = "find-one" /\ answer[i] = Answer("nil", <<>>)) =>
                    /\ Kind(ret[i].err) = "NotFound"
                    /\ ret[i].result = NilResult
            /\ (op[i] = "find-one" /\ answer[i].cause # "nil") =>
                    /\ Kind(ret[i].err) = "StoreError"
                    /\ ret[i].err.cause = answer[i].cause
            /\ (op[i] = "find-one" /\ Kind(ret[i].err) = "NotFound") =>
                    answer[i] = Answer("nil", <<>>)
            /\ (op[i] = "find-many" /\ Query(i).fn = "Find"
                    /\ Len(calls[i]) = 4 /\ answer[i] = Answer("nil", <<>>)) =>
                    ret[i] = [result |-> Result(<<>>), err |-> NoError]

C1_Witness ==
    /\ pc[1] = "returned" /\ op[1] = "find-one"
    /\ answer[1] = Answer("nil", <<>>)
    /\ ret[1].err = Error("", "NoDocuments")

\* C2: find-one and find-many with 3 arguments query with default options,
\* with 4 arguments with the options of the 4th, and with any other count
\* fail with the argument-count error without a single store call
C2_Arity ==
    \A i \in Invocations :
        (IsFind(i) /\ pc[i] # "idle") =>
            LET n == Len(args[i]) IN
            /\ n \notin {3, 4} =>
                    /\ pc[i] = "returned"
                    /\ Kind(ret[i].err) = "ArgumentError"
                    /\ ret[i].result = NilResult
                    /\ calls[i] = <<>>
            /\ n \in {3, 4} => Kind(ret[i].err) # "ArgumentError"
            /\ (n = 3 /\ calls[i] # <<>>) => Query(i).opts = NoOptions
            /\ (n = 4 /\ calls[i] # <<>>) =>
                    Query(i).opts = IF op[i] = "find-one"
                                    THEN FindOneOptions(OwnBag(i))
                                    ELSE FindOptions(OwnBag(i)).opts
            /\ (n = 4 /\ args[i][4].t \notin {"obj", "null"}) => calls[i] = <<>>

C2_Witness ==
    /\ pc[1] = "Find" /\ Len(args[1]) = 4
    /\ Query(1).opts.Limit = Set(GoInt64(2))
    /\ Query(1).opts.Projection.set

\* shapes of option values
DocShaped(v) == v.t = "map"
SortShaped(v) == v.t \in {"map", "slice"}

\* C3 as claimed: in find-many every recognized key with a value of the
\* wrong shape leaves its modifier unset
C3_Original ==
    \A i \in Invocations :
        (op[i] = "find-many" /\ calls[i] # <<>>) =>
            LET bag == OwnBag(i)
                o == Query(i).opts
            IN  /\ (sProjection \in DOMAIN bag /\ ~DocShaped(bag[sProjection]))
                        => ~o.Projection.set
                /\ (sSort \in DOMAIN bag /\ ~SortShaped(bag[sSort]))
                        => ~o.Sort.set
                /\ (sAllowDiskUse \in DOMAIN bag /\ bag[sAllowDiskUse].t # "bool")
                        => ~o.AllowDiskUse.set
                /\ (sLimit \in DOMAIN bag /\ bag[sLimit].t # "float64")
                        => ~o.Limit.set

\* C3: in find-many an allow-disk-use that is no boolean or a limit that is
\* no number is logged and left unset without failing the call; every
\* well-shaped one of the two is applied; projection and sort are applied
\* as given whatever their shape; the query is made and what the store
\* answers is what is returned
C3_WrongShape ==
    \A i \in Invocations :
        (op[i] = "find-many" /\ Len(args[i]) = 4 /\ args[i][4].t = "obj"
            /\ pc[i] # "idle") =>
            LET bag == OwnBag(i)
                o == Query(i).opts
                has(k) == k \in DOMAIN bag
                badDisk == has(sAllowDiskUse) /\ bag[sAllowDiskUse].t # "bool"
                badLimit == has(sLimit) /\ bag[sLimit].t # "float64"
            IN  /\ Len(calls[i]) >= 3
                /\ Query(i).fn = "Find"
                /\ badDisk => ~o.AllowDiskUse.set
                /\ badLimit => ~o.Limit.set
                /\ (has(sAllowDiskUse) /\ ~badDisk)
                        => o.AllowDiskUse = Set(GoBool(bag[sAllowDiskUse].b))
                /\ (has(sLimit) /\ ~badLimit)
                        => o.Limit = Set(GoInt64(Int64Of(bag[sLimit].n)))
                /\ o.Projection = IF has(sProjection) THEN Set(bag[sProjection]) ELSE Unset
                /\ o.Sort = IF has(sSort) THEN Set(bag[sSort]) ELSE Unset
                /\ \A k \in {sAllowDiskUse, sLimit} :
                        (\E j \in 1..Len(logged[i]) : logged[i][j] = k)
                            <=> (IF k = sLimit THEN badLimit ELSE badDisk)
                /\ (pc[i] = "returned" /\ answer[i].cause = "nil"
                        /\ \A j \in 1..Len(answer[i].docs) : answer[i].docs[j].enc)
                        => ret[i] = [result |-> Result(answer[i].docs), err |-> NoError]

C3_Witness ==
    /\ pc[1] = "returned" /\ op[1] = "find-many"
    /\ sLimit \in DOMAIN OwnBag(1) /\ OwnBag(1)[sLimit] = GoString(sFive)
    /\ sAllowDiskUse \in DOMAIN OwnBag(1) /\ OwnBag(1)[sAllowDiskUse] = GoBool(TRUE)
    /\ Query(1).opts.AllowDiskUse = Set(GoBool(TRUE))
    /\ ~Query(1).opts.Limit.set
    /\ logged[1] = <<sLimit>>
    /\ ret[1] = [result |-> Result(<<Doc(1, TRUE), Doc(1, TRUE)>>), err |-> NoError]

\* a token that is a wrapper object: one member, named as the identifier
\* field, holding a string of valid identifier hex
IsWrapper(v) ==
    /\ v.t = "obj"
    /\ Len(v.o) = 1
    /\ EqualFold(v.o[1].k, ObjectIdField)
    /\ v.o[1].v.t = "str"
    /\ ~ObjectIDFromHex(v.o[1].v.s).err

\* a tuple token the decoder is to reject
BadTuple(tp) ==
    \/ tp.t # "arr"
    \/ Len(tp.a) # 2
    \/ tp.a[1].t # "str"

\* the invocation is a find whose third argument is an array of tuples
HasTuples(i) ==
    /\ IsFind(i)
    /\ Len(args[i]) \in {3, 4}
    /\ args[i][1].t = "str" /\ args[i][2].t = "str"
    /\ args[i][3].t = "arr"
    /\ Len(args[i]) = 4 => args[i][4].t = "obj"

\* C4 as claimed: the value of a tuple is decoded as an object reference
\* exactly when its token is a wrapper object, and generically otherwise
C4_Original ==
    \A i \in Invocations :
        (HasTuples(i) /\ calls[i] # <<>>) =>
            \A j \in 1..Len(Query(i).filter) :
                LET v == args[i][3].a[j].a[2]
                    d == Query(i).filter[j].Value
                IN  /\ (d.t = "ObjectID") <=> IsWrapper(v)
                    /\ ~IsWrapper(v) => d = UnmarshalAny(v)

\* C5 as claimed: a tuple that is no array of 2 elements, or whose key is
\* no string, fails the decoding of the filter and with it the call
C5_Original ==
    \A i \in Invocations :
        (HasTuples(i) /\ pc[i] # "idle"
            /\ \E j \in 1..Len(args[i][3].a) : BadTuple(args[i][3].a[j])) =>
                /\ pc[i] = "returned"
                /\ Kind(ret[i].err) = "DecodeError"
                /\ ret[i].result = NilResult
                /\ calls[i] = <<>>

\* C6: for an array of n well-formed tuples the filter of the query has n
\* fields, field j with the key and the decoded value of tuple j
C6_FilterOrder ==
    \A i \in Invocations :
        (HasTuples(i) /\ pc[i] # "idle"
            /\ \A j \in 1..Len(args[i][3].a) : ~BadTuple(args[i][3].a[j])) =>
                /\ Len(calls[i]) >= 3
                /\ Query(i).fn \in {"FindOne", "Find"}
                /\ Len(Query(i).filter) = Len(args[i][3].a)
                /\ \A j \in 1..Len(args[i][3].a) :
                        /\ Query(i).filter[j].Key = args[i][3].a[j].a[1].s
                        /\ Query(i).filter[j].Value = TupleValue(args[i][3].a[j].a[2])

C6_Witness ==
    /\ pc[1] = "FindOne"
    /\ Query(1).filter = << [Key |-> sA, Value |-> GoFloat(10)],
                            [Key |-> sB, Value |-> GoString(sX)] >>

C8_OnlyProjection ==
    \A i \in Invocations :
        (HasTuples(i) /\ Len(args[i]) = 4 /\ pc[i] # "idle"
            /\ \A j \in 1..Len(args[i][3].a) : ~BadTuple(args[i][3].a[j])) =>
            LET bag == OwnBag(i)
                o == Query(i).opts
            IN  /\ Len(calls[i]) >= 3
                /\ op[i] = "find-one" =>
                    /\ Query(i).fn = "FindOne"
                    /\ o.Projection = IF sProjection \in DOMAIN bag
                                      THEN Set(bag[sProjection]) ELSE Unset
                    /\ ~o.Sort.set /\ ~o.AllowDiskUse.set /\ ~o.Limit.set
                    /\ logged[i] = <<>>
                /\ op[i] = "find-many" =>
                    LET cut == FindOptions(Restrict(bag,
                                {sProjection, sSort, sAllowDiskUse, sLimit}))
                    IN  o = cut.opts /\ logged[i] = cut.logged

C8_Witness ==
    /\ pc[1] = "FindOne"
    /\ {sProjection, sSort, sAllowDiskUse, sLimit, sX} \subseteq DOMAIN OwnBag(1)
    /\ Query(1).opts.Projection.set
    /\ ~Query(1).opts.Sort.set

\* C9: a handler returns a result or an error and never both; a failure of
\* the store is never returned as a success
C9_ResultOrError ==
    \A i \in Invocations :
        pc[i] = "returned" =>
            /\ ret[i].err # NoError => ret[i].result = NilResult
            /\ ret[i].err = NoError => ~ret[i].result.nil
            /\ answer[i].cause \notin {"nil", "none"} => ret[i].err # NoError
            /\ (answer[i].cause = "nil"
                    /\ \E j \in 1..Len(answer[i].docs) : ~answer[i].docs[j].enc)
                    => ret[i].err # NoError

C9_Witness ==
    /\ pc[1] = "returned" /\ op[1] = "find-many"
    /\ answer[1] = Answer("nil", <<Doc(1, TRUE), Doc(2, FALSE)>>)
    /\ ret[1] = [result |-> NilResult, err |-> Error("", "Marshal")]

\* what an invocation decodes from its own arguments
OwnDecode(i) ==
    DecodeArgs(args[i],
               IF op[i] = "list-collections" THEN ListTargets ELSE FindTargets(args[i]),
               FreshFrame)

\* all of the state of one invocation slot
Slot(i) == <<pc[i], op[i], args[i], ctx[i], locals[i], calls[i], logged[i],
             answer[i], ret[i]>>

\* the store calls, the log and the outcome of an invocation follow from
\* its own arguments and the store's answers to it
Determined(i) ==
    pc[i] # "idle" =>
        LET d == OwnDecode(i) IN
        /\ locals[i] = d.locals
        /\ (d.err # NoError) =>
                /\ pc[i] = "returned" /\ calls[i] = <<>>
                /\ ret[i] = [result |-> NilResult, err |-> d.err]
        /\ (d.err = NoError /\ IsFind(i)) =>
                /\ Query(i).filter = ToBSOND(d.locals.filters)
                /\ Query(i).opts = IF op[i] = "find-one"
                                   THEN FindOneOptions(OwnBag(i))
                                   ELSE FindOptions(OwnBag(i)).opts
        /\ (d.err = NoError /\ pc[i] = "returned") =>
                ret[i] = CASE op[i] = "list-collections" -> ListCollectionsResult(answer[i])
                           [] op[i] = "find-one" -> FindOneResult(answer[i])
                           [] Len(calls[i]) = 3 -> FindError(answer[i])
                           [] OTHER -> FindManyResult(answer[i])

\* C10: under every interleaving an invocation's calls and outcome follow
\* from its own arguments and the store's answers to it, a step of one
\* invocation changes nothing of another, and the store handle is left as
\* it is
C10_Isolation ==
    /\ [](\A i \in Invocations : Determined(i))
    /\ [][/\ client' = client
          /\ \A i, j \in Invocations :
                (i # j /\ Slot(i)' # Slot(i)) => Slot(j)' = Slot(j)]_vars

C10_Witness ==
    /\ pc[1] = "Find" /\ Len(args[1]) = 3
    /\ pc[2] = "FindOne" /\ Len(args[2]) = 4
    /\ locals[2].userOptions # <<>>
    /\ locals[1].userOptions = <<>>
    /\ ctx[2] = "canceled"

====
